---- MODULE Spec2Model ----
(***************************************************************************)
(* The Task app (01_TaskManager) and the Issue Tracker app                 *)
(* (02_Intermediate_Apps/01_IssueTracker) as a database state machine.     *)
(*                                                                         *)
(* The source is declarative: model classes with fields, and serializers   *)
(* with field lists.  The state is the content of the tables; the          *)
(* operations are the ones the ORM derives from the declarations:          *)
(* save() of a new row, save() of an existing row, delete() with the       *)
(* on_delete policies, model validation (full_clean) and serialization.    *)
(***************************************************************************)
EXTENDS Integers, FiniteSets, Sequences, TLC

VARIABLES db, nextId, now, last, response

vars == <<db, nextId, now, last, response>>

(***************************************************************************)
(* Bounds of the model.                                                    *)
(***************************************************************************)
MaxUsers == 2
MaxProfiles == 2
MaxProjects == 2
MaxIssues == 2
MaxComments == 1
MaxTasks == 2
MaxClock == 2
\* Narrower caps of single specifications.
TrackerMaxProfiles == 1
IssueSpecMaxUsers == 1
IssueSpecMaxProjects == 1
IssueSpecMaxIssues == 1

(***************************************************************************)
(* Schema.                                                                 *)
(***************************************************************************)
\* null=True on Issue.assignee: the value a nullable foreign key holds when
\* it refers to no row.  Primary keys start at 1.
NULL == 0

\* Python's None in a serializer's output (JSON null).
None == [none |-> TRUE]

Models == {"User", "UserProfile", "Project", "Issue", "Comment", "Task"}

MaxId(m) ==
    CASE m = "User" -> MaxUsers
      [] m = "UserProfile" -> MaxProfiles
      [] m = "Project" -> MaxProjects
      [] m = "Issue" -> MaxIssues
      [] m = "Comment" -> MaxComments
      [] m = "Task" -> MaxTasks

Fields(m) ==
    CASE m = "User" -> {"username", "email"}
      [] m = "UserProfile" -> {"user", "avatar", "bio"}
      [] m = "Project" -> {"owner", "name", "description"}
      [] m = "Issue" -> {"project", "title", "description", "created_by", "assignee",
                         "state", "priority", "created_at", "updated_at"}
      [] m = "Comment" -> {"issue", "auther", "body", "created_at"}
      [] m = "Task" -> {"title", "state", "priority"}

\* The relations, one definition per declaration.
\* Mutation: a plain ForeignKey instead of the OneToOneField.
UserProfile_user_many ==
    [model |-> "UserProfile", field |-> "user", to |-> "User",
     on_delete |-> "CASCADE", null |-> FALSE, unique |-> FALSE]

UserProfile_user ==
    [model |-> "UserProfile", field |-> "user", to |-> "User",
     on_delete |-> "CASCADE", null |-> FALSE, unique |-> TRUE]

Project_owner ==
    [model |-> "Project", field |-> "owner", to |-> "User",
     on_delete |-> "CASCADE", null |-> FALSE, unique |-> FALSE]

\* Mutation: the project relation without a deletion policy.
Issue_project_do_nothing ==
    [model |-> "Issue", field |-> "project", to |-> "Project",
     on_delete |-> "DO_NOTHING", null |-> FALSE, unique |-> FALSE]

Issue_project ==
    [model |-> "Issue", field |-> "project", to |-> "Project",
     on_delete |-> "CASCADE", null |-> FALSE, unique |-> FALSE]

Issue_created_by ==
    [model |-> "Issue", field |-> "created_by", to |-> "User",
     on_delete |-> "CASCADE", null |-> FALSE, unique |-> FALSE]

\* Mutation: the assignee relation cascades like the others.
Issue_assignee_cascade ==
    [model |-> "Issue", field |-> "assignee", to |-> "User",
     on_delete |-> "CASCADE", null |-> TRUE, unique |-> FALSE]

Issue_assignee ==
    [model |-> "Issue", field |-> "assignee", to |-> "User",
     on_delete |-> "SET_NULL", null |-> TRUE, unique |-> FALSE]

\* Mutation: the issue relation without a deletion policy.
Comment_issue_do_nothing ==
    [model |-> "Comment", field |-> "issue", to |-> "Issue",
     on_delete |-> "DO_NOTHING", null |-> FALSE, unique |-> FALSE]

Comment_issue ==
    [model |-> "Comment", field |-> "issue", to |-> "Issue",
     on_delete |-> "CASCADE", null |-> FALSE, unique |-> FALSE]

Comment_auther ==
    [model |-> "Comment", field |-> "auther", to |-> "User",
     on_delete |-> "CASCADE", null |-> FALSE, unique |-> FALSE]

ForeignKeys ==
    {UserProfile_user, Project_owner, Issue_project, Issue_created_by,
     Issue_assignee, Comment_issue, Comment_auther}

FKsOf(m) == {fk \in ForeignKeys : fk.model = m}

\* Task.STATE_CHOICES and the choices of Issue.state.
STATE_CHOICES == {"planning", "in_progress", "in_qa", "done"}

IssueStateChoices == {"open", "closed"}

\* Mutation: Issue.state declared without choices.
Choices_task_only(m) ==
    CASE m = "Task" -> [state |-> STATE_CHOICES]
      [] OTHER -> <<>>

Choices(m) ==
    CASE m = "Task" -> [state |-> STATE_CHOICES]
      [] m = "Issue" -> [state |-> IssueStateChoices]
      [] OTHER -> <<>>

\* Text fields declared without blank=True: validation rejects "".
NotBlank(m) ==
    CASE m = "User" -> {"username"}
      [] m = "Project" -> {"name"}
      [] m = "Issue" -> {"title"}
      [] m = "Comment" -> {"body"}
      [] m = "Task" -> {"title"}
      [] OTHER -> {}

\* The value a field of a new row has when the caller gives none.
Default(m) ==
    CASE m = "User" -> [username |-> "", email |-> ""]
      [] m = "UserProfile" -> [user |-> NULL, avatar |-> "", bio |-> ""]
      [] m = "Project" -> [owner |-> NULL, name |-> "", description |-> ""]
      [] m = "Issue" -> [project |-> NULL, title |-> "", description |-> "",
                         created_by |-> NULL, assignee |-> NULL, state |-> "open",
                         priority |-> 2, created_at |-> 0, updated_at |-> 0]
      [] m = "Comment" -> [issue |-> NULL, auther |-> NULL, body |-> "", created_at |-> 0]
      [] m = "Task" -> [title |-> "", state |-> "planning", priority |-> 0]

\* The auto_now_add fields of a model, in declaration order.
AutoNowAdd(m) ==
    CASE m = "Issue" -> <<"created_at", "updated_at">>
      [] m = "Comment" -> <<"created_at">>
      [] OTHER -> <<>>

\* Mutation: Issue.updated_at declared auto_now.
AutoNow_updated_at(m) == IF m = "Issue" THEN {"updated_at"} ELSE {}

\* The auto_now fields of a model: none is declared.
AutoNow(m) == {}

\* Columns with a UNIQUE constraint: the one-to-one field, and the username
\* of django.contrib.auth's User.
UniqueFields(m) ==
    {fk.field : fk \in {k \in FKsOf(m) : k.unique}}
        \cup (IF m = "User" THEN {"username"} ELSE {})

(***************************************************************************)
(* Constraints of the database and model validation.                       *)
(***************************************************************************)
Rows(m) == DOMAIN db[m]

\* Mutation: the NOT NULL constraints alone.
FKOK_not_null_only(m, rec) ==
    \A fk \in {k \in ForeignKeys : k.model = m} : rec[fk.field] = NULL => fk.null

\* NOT NULL and FOREIGN KEY constraints on the row rec of model m.
FKOK(m, rec) ==
    \A fk \in FKsOf(m) :
        IF rec[fk.field] = NULL THEN fk.null ELSE rec[fk.field] \in Rows(fk.to)

\* UNIQUE constraints, for the row with primary key id.
UniqueOK(m, id, rec) ==
    \A f \in UniqueFields(m) :
        \A j \in Rows(m) \ {id} : db[m][j][f] # rec[f]

\* Mutation: validation that does not look at the choices.
FullCleanOK_blank_only(m, rec) ==
    \A f \in NotBlank(m) : rec[f] # ""

\* Model.full_clean(): choices and blank.
FullCleanOK(m, rec) ==
    /\ \A f \in DOMAIN Choices(m) : rec[f] \in Choices(m)[f]
    /\ \A f \in NotBlank(m) : rec[f] # ""

Accepted(m, id, rec, validate) ==
    /\ FKOK(m, rec)
    /\ UniqueOK(m, id, rec)
    /\ validate => FullCleanOK(m, rec)

\* What the most recent call handed back.  A bare save() returns None; a
\* save() after full_clean(), as a serializer's save() does, returns the saved
\* instance; a rejected write raises; delete() returns the rows it collected.
NoReturn == [op |-> "none", model |-> "none", id |-> 0, error |-> "", validated |-> FALSE,
             fields |-> {}, deleted |-> {}, nulled |-> {}]

Saved(op, m, id, fs) ==
    [NoReturn EXCEPT !.op = op, !.model = m, !.id = id, !.validated = TRUE, !.fields = fs]

Raised(op, m, validate) ==
    [NoReturn EXCEPT !.op = op, !.model = m, !.validated = validate,
                     !.error = IF validate THEN "ValidationError" ELSE "IntegrityError"]

(***************************************************************************)
(* Model.save() of a new row.                                              *)
(***************************************************************************)
\* The row save() inserts: the given values over the defaults, then every
\* auto_now_add field set from its own reading of the clock; the clock
\* advances by d between two readings.
NewRow(m, values, d) ==
    LET auto == AutoNowAdd(m)
        stamp(f) == IF Len(auto) >= 2 /\ f = auto[2] THEN now + d ELSE now
    IN  [f \in Fields(m) |->
            IF \E k \in 1..Len(auto) : auto[k] = f THEN stamp(f)
            ELSE IF f \in DOMAIN values THEN values[f]
            ELSE Default(m)[f]]

Create(m, values, d, validate) ==
    LET id == nextId[m]
        rec == NewRow(m, values, d)
        adv == IF Len(AutoNowAdd(m)) >= 2 THEN d ELSE 0
    IN  /\ id <= MaxId(m)
        /\ now + adv <= MaxClock
        /\ IF Accepted(m, id, rec, validate)
           THEN /\ db' = [db EXCEPT ![m] = [i \in Rows(m) \cup {id} |->
                                               IF i = id THEN rec ELSE db[m][i]]]
                /\ nextId' = [nextId EXCEPT ![m] = id + 1]
                /\ now' = now + adv
                /\ last' = IF validate THEN Saved("create", m, id, DOMAIN values)
                           ELSE NoReturn
           ELSE /\ UNCHANGED <<db, nextId, now>>
                /\ last' = Raised("create", m, validate)
        /\ UNCHANGED response

(***************************************************************************)
(* Model.save() of an existing row.                                        *)
(***************************************************************************)
SavedRow(m, id, changes) ==
    [f \in Fields(m) |->
        IF f \in AutoNow(m) THEN now
        ELSE IF f \in DOMAIN changes THEN changes[f]
        ELSE db[m][id][f]]

Update(m, id, changes, validate) ==
    LET rec == SavedRow(m, id, changes)
    IN  /\ id \in Rows(m)
        /\ IF Accepted(m, id, rec, validate)
           THEN /\ db' = [db EXCEPT ![m][id] = rec]
                /\ last' = IF validate THEN Saved("update", m, id, DOMAIN changes)
                           ELSE NoReturn
           ELSE /\ UNCHANGED db
                /\ last' = Raised("update", m, validate)
        /\ UNCHANGED <<nextId, now, response>>

(***************************************************************************)
(* Model.delete(): the collector follows the relations that point to the   *)
(* collected rows; CASCADE collects the referring rows too, SET_NULL       *)
(* schedules an update of the referring field.                             *)
(***************************************************************************)
Referring(fk, S) ==
    {<<fk.model, i>> : i \in {j \in Rows(fk.model) : <<fk.to, db[fk.model][j][fk.field]>> \in S}}

\* Mutation: a collector that stops after the rows that refer to S directly.
Collect_one_level(S) ==
    S \cup UNION {Referring(fk, S) : fk \in {k \in ForeignKeys : k.on_delete = "CASCADE"}}

RECURSIVE Collect(_)
Collect(S) ==
    LET sub == UNION {Referring(fk, S) : fk \in {k \in ForeignKeys : k.on_delete = "CASCADE"}}
    IN  IF sub \subseteq S THEN S ELSE Collect(S \cup sub)

\* The fields of row <<m, i>> that the delete of S sets to null.
NullFields(m, i, S) ==
    {fk.field : fk \in {k \in FKsOf(m) :
                          /\ k.on_delete = "SET_NULL"
                          /\ <<m, i>> \in Referring(k, S)}}

Delete(m, id) ==
    LET S == Collect({<<m, id>>})
        row(x, i) == LET nf == NullFields(x, i, S)
                     IN  IF nf = {} THEN db[x][i]
                         ELSE [f \in Fields(x) |-> IF f \in nf THEN NULL ELSE db[x][i][f]]
        upd == UNION {{<<x, i>> : i \in {j \in Rows(x) : /\ <<x, j>> \notin S
                                                         /\ NullFields(x, j, S) # {}}} :
                      x \in Models}
    IN  /\ id \in Rows(m)
        /\ db' = [x \in Models |-> [i \in {j \in Rows(x) : <<x, j>> \notin S} |-> row(x, i)]]
        /\ last' = [NoReturn EXCEPT !.op = "delete", !.model = m, !.id = id,
                                    !.deleted = S, !.nulled = upd]
        /\ UNCHANGED <<nextId, now, response>>

\* Time passes between two operations.
Tick ==
    /\ now < MaxClock
    /\ now' = now + 1
    /\ UNCHANGED <<db, nextId, last, response>>

Init ==
    /\ db = [m \in Models |-> <<>>]
    /\ nextId = [m \in Models |-> 1]
    /\ now = 0
    /\ last = NoReturn
    /\ response = None

(***************************************************************************)
(* Serializers: a ModelSerializer renders the fields its Meta lists.       *)
(***************************************************************************)
\* Mutation: fields = "__all__" on the profile serializer.
UserProfileSerializer_all_fields == {"id", "user", "avatar", "bio"}

UserProfileSerializer_fields == {"avatar", "bio"}

UserSerializer_fields == {"id", "username", "email", "profile"}

UserProfileSerializer(p) ==
    [f \in UserProfileSerializer_fields |->
        IF f = "id" THEN p ELSE db["UserProfile"][p][f]]

\* related_name="profile": the rows the reverse accessor of user u finds.
profile(u) == {p \in Rows("UserProfile") : db["UserProfile"][p].user = u}

\* The nested field: the accessor of a user without a profile raises
\* ObjectDoesNotExist, which the field renders as None.
UserSerializer(u) ==
    [f \in UserSerializer_fields |->
        CASE f = "id" -> u
          [] f = "profile" -> IF profile(u) = {} THEN None
                              ELSE UserProfileSerializer(CHOOSE p \in profile(u) : TRUE)
          [] OTHER -> db["User"][u][f]]

Serialize(u) ==
    /\ u \in Rows("User")
    /\ response' = UserSerializer(u)
    /\ last' = [NoReturn EXCEPT !.op = "serialize", !.model = "User", !.id = u]
    /\ UNCHANGED <<db, nextId, now>>

(***************************************************************************)
(* Specification Spec: the issue tracker.  Creates, updates and deletes of *)
(* users, profiles, projects, issues and comments through the ORM.         *)
(***************************************************************************)
TrackerModels == {"User", "UserProfile", "Project", "Issue", "Comment"}

UserIds == 1..MaxUsers
ProfileIds == 1..MaxProfiles
ProjectIds == 1..MaxProjects
IssueIds == 1..MaxIssues
TaskIds == 1..MaxTasks

Usernames == <<"alice", "bob">>

UsernameFor(id) == Usernames[((id - 1) % Len(Usernames)) + 1]

CreateUser ==
    Create("User", [username |-> UsernameFor(nextId["User"])], 0, FALSE)

CreateUserProfile ==
    /\ nextId["UserProfile"] <= TrackerMaxProfiles
    /\ \E u \in UserIds : Create("UserProfile", [user |-> u], 0, FALSE)

CreateProject ==
    \E u \in UserIds : Create("Project", [owner |-> u, name |-> "p"], 0, FALSE)

CreateIssue ==
    \E p \in ProjectIds, c \in UserIds, a \in UserIds \cup {NULL} :
        Create("Issue", [project |-> p, created_by |-> c, assignee |-> a, title |-> "t"],
               0, FALSE)

CreateComment ==
    \E i \in IssueIds, u \in UserIds :
        Create("Comment", [issue |-> i, auther |-> u, body |-> "b"], 0, FALSE)

AssignIssue ==
    \E i \in IssueIds, a \in UserIds \cup {NULL} :
        Update("Issue", i, [assignee |-> a], FALSE)

MoveIssue ==
    \E i \in IssueIds, p \in ProjectIds : Update("Issue", i, [project |-> p], FALSE)

TransferProject ==
    \E p \in ProjectIds, u \in UserIds : Update("Project", p, [owner |-> u], FALSE)

DeleteRow ==
    \E m \in TrackerModels : \E id \in 1..MaxId(m) : Delete(m, id)

TrackerNext ==
    \/ CreateUser
    \/ CreateUserProfile
    \/ CreateProject
    \/ CreateIssue
    \/ CreateComment
    \/ AssignIssue
    \/ MoveIssue
    \/ TransferProject
    \/ DeleteRow

Spec == Init /\ [][TrackerNext]_vars

(***************************************************************************)
(* Specification SpecProfile: accounts, their profiles and the user        *)
(* serializer.                                                             *)
(***************************************************************************)
Emails == {"", "a@x.org"}

Bios == {"", "hello"}

Register ==
    \E k \in 1..Len(Usernames), e \in Emails :
        Create("User", [username |-> Usernames[k], email |-> e], 0, TRUE)

AddProfile ==
    \E u \in UserIds, b \in Bios, v \in BOOLEAN :
        Create("UserProfile", [user |-> u, bio |-> b], 0, v)

EditProfile ==
    \E p \in ProfileIds, b \in Bios : Update("UserProfile", p, [bio |-> b], TRUE)

ReassignProfile ==
    \E p \in ProfileIds, u \in UserIds, v \in BOOLEAN :
        Update("UserProfile", p, [user |-> u], v)

RemoveProfile == \E p \in ProfileIds : Delete("UserProfile", p)

RemoveUser == \E u \in UserIds : Delete("User", u)

RenderUser == \E u \in UserIds : Serialize(u)

ProfileNext ==
    \/ Register
    \/ AddProfile
    \/ EditProfile
    \/ ReassignProfile
    \/ RemoveProfile
    \/ RemoveUser
    \/ RenderUser

SpecProfile == Init /\ [][ProfileNext]_vars

(***************************************************************************)
(* Specification SpecTask: the Task app.                                   *)
(***************************************************************************)
\* A string of at most 20 characters that is none of the choices.
OtherState == "archived"

TaskStateInputs == STATE_CHOICES \cup {OtherState}

Titles == {"", "t"}

CreateTaskDefault ==
    \E t \in Titles, v \in BOOLEAN : Create("Task", [title |-> t], 0, v)

CreateTask ==
    \E s \in TaskStateInputs, v \in BOOLEAN :
        Create("Task", [title |-> "t", state |-> s], 0, v)

UpdateTask ==
    \E id \in TaskIds, s \in TaskStateInputs, v \in BOOLEAN :
        Update("Task", id, [state |-> s], v)

RetitleTask ==
    \E id \in TaskIds, t \in Titles, v \in BOOLEAN :
        Update("Task", id, [title |-> t], v)

DeleteTask == \E id \in TaskIds : Delete("Task", id)

TaskNext ==
    \/ CreateTaskDefault
    \/ CreateTask
    \/ UpdateTask
    \/ RetitleTask
    \/ DeleteTask

SpecTask == Init /\ [][TaskNext]_vars

(***************************************************************************)
(* Specification SpecIssue: the fields of an issue (state, priority and    *)
(* the two timestamps) under creates, updates and the passing of time.     *)
(***************************************************************************)
IssueStateInputs == IssueStateChoices \cup {OtherState}

Priorities == {1, 3}

Reporter ==
    /\ nextId["User"] <= IssueSpecMaxUsers
    /\ Create("User", [username |-> Usernames[1]], 0, FALSE)

OpenProject ==
    /\ nextId["Project"] <= IssueSpecMaxProjects
    /\ \E u \in UserIds : Create("Project", [owner |-> u, name |-> "p"], 0, FALSE)

ReportIssue ==
    /\ nextId["Issue"] <= IssueSpecMaxIssues
    /\ \E d \in {0, 1}, v \in BOOLEAN :
          Create("Issue", [project |-> 1, created_by |-> 1, title |-> "t"], d, v)

ReportIssueInState ==
    /\ nextId["Issue"] <= IssueSpecMaxIssues
    /\ \E s \in IssueStateInputs, v \in BOOLEAN :
          Create("Issue", [project |-> 1, created_by |-> 1, title |-> "t", state |-> s], 0, v)

SetIssueState ==
    \E i \in IssueIds, s \in IssueStateInputs, v \in BOOLEAN :
        Update("Issue", i, [state |-> s], v)

SetIssuePriority ==
    \E i \in IssueIds, p \in Priorities : Update("Issue", i, [priority |-> p], TRUE)

DeleteIssue == \E i \in IssueIds : Delete("Issue", i)

IssueNext ==
    \/ Reporter
    \/ OpenProject
    \/ ReportIssue
    \/ ReportIssueInState
    \/ SetIssueState
    \/ SetIssuePriority
    \/ DeleteIssue
    \/ Tick

SpecIssue == Init /\ [][IssueNext]_vars

(***************************************************************************)
(* The tables by name.                                                     *)
(***************************************************************************)
users == db["User"]
profiles == db["UserProfile"]
projects == db["Project"]
issues == db["Issue"]
comments == db["Comment"]
tasks == db["Task"]

\* The step is the call delete() on row id of model m.
Deleting(m, id) == last'.op = "delete" /\ last'.model = m /\ last'.id = id

(***************************************************************************)
(* C1                                                                      *)
(***************************************************************************)
\* C1, as stated: deleting user U keeps every Issue assigned to U and sets its
\* assignee to null, also when U created the Issue or owns its Project.
C1_AssigneeDeleteKeepsEveryIssue ==
    [][\A u \in UserIds : Deleting("User", u) =>
         \A i \in DOMAIN issues : issues[i].assignee = u =>
             /\ i \in DOMAIN issues'
             /\ issues'[i].assignee = NULL]_vars

\* C1, amended: deleting user U keeps an Issue assigned to U, with its
\* assignee set to null and nothing else changed, when U is neither its creator
\* nor the owner of its Project; otherwise the Issue is deleted with U.
C1_AssigneeSetNull ==
    [][\A u \in UserIds : Deleting("User", u) =>
         \A i \in DOMAIN issues : issues[i].assignee = u =>
             IF issues[i].created_by # u /\ projects[issues[i].project].owner # u
             THEN /\ i \in DOMAIN issues'
                  /\ issues'[i] = [issues[i] EXCEPT !.assignee = NULL]
             ELSE i \notin DOMAIN issues']_vars

\* A user has been deleted and an issue that was assigned to that user is
\* still there, without assignee.
C1_Witness ==
    /\ last.op = "delete"
    /\ last.model = "User"
    /\ \E i \in DOMAIN issues : <<"Issue", i>> \in last.nulled /\ issues[i].assignee = NULL

(***************************************************************************)
(* C2                                                                      *)
(***************************************************************************)
\* C2: deleting a Project removes exactly the Issues of that Project, and in
\* every state the Project of every Issue exists.
C2_ProjectCascade ==
    /\ [](\A i \in DOMAIN issues : issues[i].project \in DOMAIN projects)
    /\ [][\A p \in ProjectIds : Deleting("Project", p) =>
            /\ p \notin DOMAIN projects'
            /\ DOMAIN issues' = {i \in DOMAIN issues : issues[i].project # p}
            /\ \A i \in DOMAIN issues' : issues'[i] = issues[i]]_vars

\* A project has been deleted, an issue went with it and another issue stays.
C2_Witness ==
    /\ last.op = "delete"
    /\ last.model = "Project"
    /\ \E i \in IssueIds : <<"Issue", i>> \in last.deleted
    /\ DOMAIN issues # {}

(***************************************************************************)
(* C3                                                                      *)
(***************************************************************************)
\* C3: whenever an Issue goes, directly or by a cascade, all its Comments go
\* in the same step, and in every state the Issue of every Comment exists.
C3_IssueCascade ==
    /\ [](\A c \in DOMAIN comments : comments[c].issue \in DOMAIN issues)
    /\ [][\A i \in DOMAIN issues : i \notin DOMAIN issues' =>
            \A c \in DOMAIN comments : comments[c].issue = i => c \notin DOMAIN comments']_vars

\* A project has been deleted and a comment went with one of its issues.
C3_Witness ==
    /\ last.op = "delete"
    /\ last.model = "Project"
    /\ \E i \in IssueIds : <<"Issue", i>> \in last.deleted
    /\ \E c \in 1..MaxComments : <<"Comment", c>> \in last.deleted

(***************************************************************************)
(* C8                                                                      *)
(***************************************************************************)
\* C8: every reference points to an existing row: a UserProfile's user, a
\* Project's owner, an Issue's project and creator, a Comment's issue and
\* author; an Issue's assignee is null or an existing User.
C8_ReferentialIntegrity ==
    /\ \A p \in DOMAIN profiles : profiles[p].user \in DOMAIN users
    /\ \A p \in DOMAIN projects : projects[p].owner \in DOMAIN users
    /\ \A i \in DOMAIN issues :
        /\ issues[i].project \in DOMAIN projects
        /\ issues[i].created_by \in DOMAIN users
        /\ issues[i].assignee \in DOMAIN users \cup {NULL}
    /\ \A c \in DOMAIN comments :
        /\ comments[c].issue \in DOMAIN issues
        /\ comments[c].auther \in DOMAIN users

\* A user has been deleted, rows went with the user, and an issue that referred
\* to the user as assignee stays.
C8_Witness ==
    /\ last.op = "delete"
    /\ last.model = "User"
    /\ Cardinality(last.deleted) > 1
    /\ last.nulled # {}
    /\ DOMAIN issues # {}

(***************************************************************************)
(* C9                                                                      *)
(***************************************************************************)
\* f without the rows whose key is in gone.
Without(f, gone) == [k \in DOMAIN f \ gone |-> f[k]]

\* C9: deleting user U removes U, U's profile, U's projects, the issues of
\* those projects, the issues U created, the comments U wrote and the comments
\* on removed issues; every other row is unchanged, except that the surviving
\* issues assigned to U have no assignee.
C9_DeleteUserEffect ==
    [][\A u \in UserIds : Deleting("User", u) =>
         LET goneProfiles == {p \in DOMAIN profiles : profiles[p].user = u}
             goneProjects == {p \in DOMAIN projects : projects[p].owner = u}
             goneIssues == {i \in DOMAIN issues :
                               \/ issues[i].project \in goneProjects
                               \/ issues[i].created_by = u}
             goneComments == {c \in DOMAIN comments :
                                 \/ comments[c].auther = u
                                 \/ comments[c].issue \in goneIssues}
         IN  /\ users' = Without(users, {u})
             /\ profiles' = Without(profiles, goneProfiles)
             /\ projects' = Without(projects, goneProjects)
             /\ issues' = [i \in DOMAIN issues \ goneIssues |->
                             IF issues[i].assignee = u
                             THEN [issues[i] EXCEPT !.assignee = NULL]
                             ELSE issues[i]]
             /\ comments' = Without(comments, goneComments)
             /\ tasks' = tasks]_vars

\* A user has been deleted together with a profile, a project, an issue and a
\* comment, and an issue of another project has lost its assignee.
C9_Witness ==
    /\ last.op = "delete"
    /\ last.model = "User"
    /\ \E p \in ProfileIds : <<"UserProfile", p>> \in last.deleted
    /\ \E p \in ProjectIds : <<"Project", p>> \in last.deleted
    /\ \E i \in IssueIds : <<"Issue", i>> \in last.deleted
    /\ \E c \in 1..MaxComments : <<"Comment", c>> \in last.deleted
    /\ \E i \in DOMAIN issues : <<"Issue", i>> \in last.nulled
    /\ DOMAIN users # {}

(***************************************************************************)
(* C4                                                                      *)
(***************************************************************************)
\* C4: no user ever has two profiles, and creating a profile for a user who
\* has one is rejected and leaves the tables unchanged.
C4_OneProfilePerUser ==
    /\ [](\A u \in UserIds : Cardinality(profile(u)) <= 1)
    /\ [][\A u \in UserIds, b \in Bios, v \in BOOLEAN :
            (profile(u) # {} /\ Create("UserProfile", [user |-> u, bio |-> b], 0, v)) =>
                /\ db' = db
                /\ last'.error # ""]_vars

\* Every user exists, so no reference can dangle, and the creation of a
\* profile has just been rejected: the user had one.
C4_Witness ==
    /\ DOMAIN users = UserIds
    /\ last.op = "create"
    /\ last.model = "UserProfile"
    /\ last.error # ""
    /\ DOMAIN profiles # {}

(***************************************************************************)
(* C5                                                                      *)
(***************************************************************************)
TaskStates == {"planning", "in_progress", "in_qa", "done"}

\* C5, as stated: after any sequence of creates, updates and deletes the state
\* of every Task is one of planning, in_progress, in_qa, done.
C5_EveryTaskStateIsAChoice ==
    \A t \in DOMAIN tasks : tasks[t].state \in TaskStates

\* C5, amended: a Task saved through validation has one of the four states,
\* planning when the create gave none, and validation accepts the change of a
\* Task whose title is not blank to any of the four states, whatever its state.
C5_ValidatedTaskState ==
    /\ (last.model = "Task" /\ last.validated /\ last.error = "") =>
          /\ tasks[last.id].state \in TaskStates
          /\ (last.op = "create" /\ "state" \notin last.fields) =>
                tasks[last.id].state = "planning"
    /\ \A t \in DOMAIN tasks : tasks[t].title # "" =>
          \A s \in TaskStates :
              Accepted("Task", t, SavedRow("Task", t, [state |-> s]), TRUE)

\* A validated update has just set the state of a task back to planning while
\* another task is done.
C5_Witness ==
    /\ last.op = "update"
    /\ last.model = "Task"
    /\ last.validated
    /\ last.error = ""
    /\ "state" \in last.fields
    /\ tasks[last.id].state = "planning"
    /\ \E t \in DOMAIN tasks : tasks[t].state = "done"

(***************************************************************************)
(* C6                                                                      *)
(***************************************************************************)
IssueStates == {"open", "closed"}

\* C6, as stated: after any sequence of creates, updates and deletes the state
\* of every Issue is open or closed.
C6_EveryIssueStateIsAChoice ==
    \A i \in DOMAIN issues : issues[i].state \in IssueStates

\* C6, amended: an Issue saved through validation is open or closed, and open
\* when the create gave no state.
C6_ValidatedIssueState ==
    (last.model = "Issue" /\ last.validated /\ last.error = "") =>
        /\ issues[last.id].state \in IssueStates
        /\ (last.op = "create" /\ "state" \notin last.fields) =>
              issues[last.id].state = "open"

\* A validated update has just closed an issue.
C6_Witness ==
    /\ last.op = "update"
    /\ last.model = "Issue"
    /\ last.validated
    /\ last.error = ""
    /\ "state" \in last.fields
    /\ issues[last.id].state = "closed"

(***************************************************************************)
(* C7                                                                      *)
(***************************************************************************)
\* C7, as stated: the output of UserSerializer has the keys id, username, email
\* and profile, and profile is an object with exactly the keys avatar and bio,
\* for every user, with or without a UserProfile.
C7_ProfileAlwaysNested ==
    last.op = "serialize" =>
        /\ DOMAIN response = {"id", "username", "email", "profile"}
        /\ DOMAIN response.profile = {"avatar", "bio"}

\* C7, amended: the output has exactly the keys id, username, email and
\* profile, with the user's values; profile is an object with exactly the keys
\* avatar and bio of the user's UserProfile, and null for a user without one.
C7_UserSerializerOutput ==
    last.op = "serialize" =>
        LET u == last.id
            own == {p \in DOMAIN profiles : profiles[p].user = u}
        IN  /\ DOMAIN response = {"id", "username", "email", "profile"}
            /\ response.id = u
            /\ response.username = users[u].username
            /\ response.email = users[u].email
            /\ IF own = {} THEN response.profile = None
               ELSE \E p \in own :
                       response.profile = [avatar |-> profiles[p].avatar,
                                           bio |-> profiles[p].bio]

\* A user without a profile has just been serialized, while another user has
\* a profile.
C7_Witness ==
    /\ last.op = "serialize"
    /\ \A p \in DOMAIN profiles : profiles[p].user # last.id
    /\ DOMAIN profiles # {}
    /\ response.profile = None

(***************************************************************************)
(* C10                                                                     *)
(***************************************************************************)
\* C10, as stated: updated_at equals created_at for every Issue in every
\* state.
C10_UpdatedAtEqualsCreatedAt ==
    \A i \in DOMAIN issues : issues[i].updated_at = issues[i].created_at

\* C10, amended: updated_at is set when the Issue is created, from a reading of
\* the clock of its own, taken after the one for created_at, and no later step
\* changes it.
C10_UpdatedAtSetOnce ==
    [][\A i \in DOMAIN issues' :
         IF i \in DOMAIN issues
         THEN issues'[i].updated_at = issues[i].updated_at
         ELSE /\ issues'[i].created_at = now
              /\ issues'[i].updated_at = now']_vars

\* An issue whose two timestamps differ has just been updated, later than
\* both.
C10_Witness ==
    /\ last.op = "update"
    /\ last.model = "Issue"
    /\ last.error = ""
    /\ issues[last.id].created_at < issues[last.id].updated_at
    /\ issues[last.id].updated_at < now

====
